---- MODULE Spec2Model ----
(***************************************************************************)
(* Shared-memory counters of atomics/src/public: the three Counter         *)
(* examples (plain, Atomics, mutex-guarded), the Mutex built on            *)
(* Atomics.compareExchange / wait / notify, the worker's message handler   *)
(* (counting-worker.js) and the main thread's handlers (main.js).          *)
(*                                                                         *)
(* One step of a worker is one access to shared memory, or one message    *)
(* sent or received, together with the thread-local code that follows it   *)
(* up to the next one.  Each worker is sent at most one request.            *)
(***************************************************************************)
EXTENDS Integers, Sequences, FiniteSets, TLC

(***************************************************************************)
(* Bounds.  The source runs 4 workers, 100_000 updates per request and a   *)
(* 32-bit counter word; the model scales each of them down.  A Mutex is    *)
(* also run under NumAgents agents that call it directly, MaxCalls calls   *)
(* each.                                                                   *)
(***************************************************************************)
NUM_WORKERS == 2
NumUpdates == 1
WordBits == 4
MaxCalls == 2
NumAgents == 3

(***************************************************************************)
(* Program constants.                                                      *)
(***************************************************************************)
LOCKED == 1
UNLOCKED == 0
BYTES_PER_ELEMENT == 4
MIN_BYTES == BYTES_PER_ELEMENT
NUM_AGENTS_TO_NOTIFY == 1

Workers == 1..NUM_WORKERS
Agents == 1..NumAgents
Modulus == 2^WordBits
NotShown == 0 - 1

Strategies == {"example1", "example2", "example3"}
Operations == {"increment", "decrement", "reset"}

(***************************************************************************)
(* Buffers a request can carry.  The two buffers main.js allocates are the *)
(* only ones backed by the shared words counterMem and lockMem.            *)
(***************************************************************************)
sharedCounterBuffer == [kind |-> "SharedArrayBuffer", byteLength |-> BYTES_PER_ELEMENT]
sharedMutexBuffer == [kind |-> "SharedArrayBuffer", byteLength |-> BYTES_PER_ELEMENT]
Undefined == [kind |-> "undefined", byteLength |-> 0]
SmallBuffer == [kind |-> "SharedArrayBuffer", byteLength |-> 2]
PlainBuffer == [kind |-> "ArrayBuffer", byteLength |-> BYTES_PER_ELEMENT]
Buffers == {sharedCounterBuffer, SmallBuffer, PlainBuffer}

Request(operation, counterBuffer, mutexBuffer) ==
  [operation |-> operation, sharedCounterBuffer |-> counterBuffer,
   sharedMutexBuffer |-> mutexBuffer]

\* The requests a worker is tried on: every operation tag over the two buffers
\* of main.js, and an increment over each buffer the constructors reject.
Requests ==
  {Request(operation, sharedCounterBuffer, sharedMutexBuffer) : operation \in Operations}
    \cup {Request("increment", b, sharedMutexBuffer) : b \in Buffers}
    \cup {Request("increment", sharedCounterBuffer, b) : b \in Buffers}

NoData == [operation |-> "none", sharedCounterBuffer |-> Undefined, sharedMutexBuffer |-> Undefined]

VARIABLES
  strategy,    \* the example counter.js re-exports
  counterMem,  \* word 0 of the shared counter buffer (Uint32)
  lockMem,     \* word 0 of the shared mutex buffer (Int32)
  waiters,     \* workers asleep in Atomics.wait on the lock word
  inbox,       \* per worker: requests posted by the main thread, not yet handled
  outbox,      \* per worker: reports posted to the main thread, not yet handled
  displayed,   \* the count shown by the main thread
  posted,      \* whether the main thread has posted its requests
  start,       \* history: the counter word when the requests were posted
  pc,          \* per worker: position in its code
  method,      \* per worker: the Counter / Mutex method it is executing
  selected,    \* per worker: the operation its handler's switch selected
  numUpdates,  \* per worker: the handler's local numUpdates
  loaded,      \* per worker: the value read by the plain read of `+=`
  count,       \* per worker: the value counter.value returned
  thrown,      \* per worker: the error that ended its last call, if any
  budget,      \* per caller of the Mutex: calls it may still make
  holding,     \* history: workers whose own CAS acquired the lock and who have not yet called unlock() to its end
  calls,       \* history: per worker and operation, Counter calls made
  tasks,       \* history: per worker and operation, requests that entered the loop
  sent,        \* history: per worker, reports posted
  spurious     \* history: workers woken without a notify that have not acquired the lock since

shared == <<counterMem, lockMem, waiters>>
mainVars == <<inbox, outbox, displayed, posted, start>>
locals == <<pc, method, selected, numUpdates, loaded, count, thrown, budget>>
history == <<holding, calls, tasks, sent, spurious>>
vars == <<strategy, counterMem, lockMem, waiters, inbox, outbox, displayed, posted, start,
          pc, method, selected, numUpdates, loaded, count, thrown, budget,
          holding, calls, tasks, sent, spurious>>

(***************************************************************************)
(* Pure parts of the code.                                                 *)
(***************************************************************************)

\* A store that saturates at zero instead of wrapping.
ToUint32Clamped(x) == IF x < 0 THEN 0 ELSE x % Modulus

\* Storing a number into a Uint32Array element keeps it modulo 2^32.
ToUint32(x) == x % Modulus

\* A `+=` that is applied twice.
PlainUpdateTwice(read, value) == ToUint32(read + value + value)

\* `view[0] += value`: the value stored from the value read.
PlainUpdate(read, value) == ToUint32(read + value)

\* Atomics.store(view, 0, value) in place of Atomics.add.
AtomicsStore(mem, value) == ToUint32(value)

\* Atomics.add(view, 0, value) / Atomics.sub(view, 0, value): the new word.
AtomicsAdd(mem, value) == ToUint32(mem + value)
AtomicsSub(mem, value) == ToUint32(mem - value)

\* An exchange that does not compare.
CompareExchangeBlind(mem, expected, replacement) ==
  [previous |-> expected, stored |-> replacement]

\* Atomics.compareExchange(view, 0, expected, replacement).
CompareExchange(mem, expected, replacement) ==
  [previous |-> mem, stored |-> IF mem = expected THEN replacement ELSE mem]

\* A #tryGetLock that reports the lock taken on an UNLOCKED word and leaves
\* the word as it was.
tryGetLockNoStore(mem) == [ok |-> mem = UNLOCKED, mem |-> mem]

\* A #tryGetLock that reports success whatever the previous state was.
tryGetLockAlways(mem) == [ok |-> TRUE, mem |-> LOCKED]

\* Mutex.#tryGetLock
tryGetLock(mem) ==
  LET r == CompareExchange(mem, UNLOCKED, LOCKED)
  IN  [ok |-> r.previous = UNLOCKED, mem |-> r.stored]

\* A #tryUnlock that reports a release and leaves the word as it was.
tryUnlockKeep(mem) == [ok |-> TRUE, mem |-> mem]

\* A #tryUnlock that stores UNLOCKED and never fails.
tryUnlockStore(mem) == [ok |-> TRUE, mem |-> UNLOCKED]

\* Mutex.#tryUnlock
tryUnlock(mem) ==
  LET r == CompareExchange(mem, LOCKED, UNLOCKED)
  IN  [ok |-> r.previous = LOCKED, mem |-> r.stored]

\* An #ensureSharedArrayBuffer without the test of the byte length.
ensureInstanceOnly(value) ==
  IF value.kind # "SharedArrayBuffer" THEN "ExpectedSharedArrayBuffer" ELSE "ok"

\* #ensureSharedArrayBuffer: "ok", or the error it throws.
ensureSharedArrayBuffer(value) ==
  IF value.kind # "SharedArrayBuffer" THEN "ExpectedSharedArrayBuffer"
  ELSE IF value.byteLength < MIN_BYTES THEN "ExpectedMinBytes"
  ELSE "ok"

InvalidBuffer == {"ExpectedSharedArrayBuffer", "ExpectedMinBytes"}

\* new Mutex(sharedBuffer)
NewMutex(sharedBuffer) == ensureSharedArrayBuffer(sharedBuffer)

\* new Counter(...) of the selected example; example3 also builds its Mutex.
NewCounter(s, counterBuffer, mutexBuffer) ==
  IF ensureSharedArrayBuffer(counterBuffer) # "ok"
    THEN ensureSharedArrayBuffer(counterBuffer)
  ELSE IF s = "example3" THEN NewMutex(mutexBuffer)
  ELSE "ok"

\* A switch whose default falls into the increment case.
SwitchCaseFallthrough(operation) ==
  IF operation = "decrement" THEN "decrement" ELSE "increment"

\* The switch of handleMessageFromMain.
SwitchCase(operation) ==
  IF operation = "increment" THEN "increment"
  ELSE IF operation = "decrement" THEN "decrement"
  ELSE "default"

\* A handler that goes on after a constructor that threw.
HandlerOutcomeIgnoringThrow(made, branch) ==
  IF branch = "default" THEN "return" ELSE "loop"

\* How handleMessageFromMain proceeds: the constructor's throw ends it, the
\* default case returns, the other cases run their loop.
HandlerOutcome(made, branch) ==
  IF made # "ok" THEN "throw"
  ELSE IF branch = "default" THEN "return"
  ELSE "loop"

\* `numUpdates-- > 0`
LoopContinues(n) == n > 0

\* A decrement() that passes its value on without negating it.
DeltaUp(operation) == 1

\* counter.increment() adds 1; example1/example3 decrement() is increment(-1).
Delta(operation) == IF operation = "decrement" THEN 0 - 1 ELSE 1

\* An increment() that takes a lock in every example.
UpdateEntryLocking(s, operation) == "lock"

\* An increment() that enters its plain access without lock().
UpdateEntryUnguarded(s, operation) ==
  CASE s = "example2" -> (IF operation = "decrement" THEN "sub" ELSE "add")
    [] OTHER -> "read"

\* First shared-memory step of increment() / decrement() in each example.
UpdateEntry(s, operation) ==
  CASE s = "example1" -> "read"
    [] s = "example2" -> (IF operation = "decrement" THEN "sub" ELSE "add")
    [] s = "example3" -> "lock"

\* First shared-memory step of the value getter in each example.
ValueEntry(s) ==
  CASE s = "example1" -> "get"
    [] s = "example2" -> "load"
    [] s = "example3" -> "lock"

\* A notify that wakes nobody.
NotifiedNone(sleeping, n) == {{}}

\* A notify that wakes every sleeper.
NotifiedAll(sleeping, n) == {sleeping}

\* Atomics.notify(view, 0, n): the sets of sleepers it may wake, n of them or
\* all of them when fewer sleep.
Notified(sleeping, n) ==
  {woken \in SUBSET sleeping :
     Cardinality(woken) = (IF Cardinality(sleeping) < n THEN Cardinality(sleeping) ELSE n)}

\* Atomics.wait(view, 0, expected): whether the caller is put to sleep.
AtomicsWaitAlways(mem, expected) == "sleep"

AtomicsWait(mem, expected) == IF mem = expected THEN "sleep" ELSE "not-equal"

\* A wake-up that is taken for the lock: lock() returns to its caller.
AfterWakeGranted(m) ==
  CASE m = "lock" -> "client"
    [] m = "value" -> "get"
    [] OTHER -> "read"

\* Where a worker woken from #waitIfLocked continues: `while (true)` takes it
\* back to #tryGetLock.
AfterWake(m) == "lock"

\* Where a caller continues when lock() returns.
AfterLock(m) ==
  CASE m = "lock" -> "client"
    [] m = "value" -> "get"
    [] OTHER -> "read"

\* The loop of handleMessageFromMain from its test on: with n in numUpdates,
\* `numUpdates-- > 0` either enters the next call of the operation or leaves
\* the loop for `counter.value`.
Iterate(s, operation, n) ==
  IF LoopContinues(n)
    THEN [pc |-> UpdateEntry(s, operation), method |-> operation,
          numUpdates |-> n - 1, call |-> 1]
    ELSE [pc |-> ValueEntry(s), method |-> "value",
          numUpdates |-> n - 1, call |-> 0]

\* Where a caller continues when unlock() returns: the caller of the Mutex,
\* the end of the value getter, or the end of increment() and so the loop.
AfterUnlock(s, m, operation, n) ==
  CASE m = "unlock" -> [pc |-> "client", method |-> "none", numUpdates |-> n, call |-> 0]
    [] m = "value" -> [pc |-> "post", method |-> "value", numUpdates |-> n, call |-> 0]
    [] OTHER -> Iterate(s, operation, n)

\* A throw of unlock() that the Counter swallows: the handler goes on to its report.
AfterThrowSwallowed(m) == IF m = "unlock" THEN "client" ELSE "post"

\* Where a caller ends up when unlock() throws.
AfterThrow(m) == IF m = "unlock" THEN "client" ELSE "idle"

NoCalls == [increment |-> 0, decrement |-> 0]

(***************************************************************************)
(* Initial states.                                                         *)
(***************************************************************************)
InitThreads(threads) ==
  /\ start = counterMem
  /\ lockMem = UNLOCKED
  /\ waiters = {}
  /\ inbox = [w \in Workers |-> <<>>]
  /\ outbox = [w \in Workers |-> <<>>]
  /\ displayed = NotShown
  /\ posted = FALSE
  /\ method = [w \in threads |-> "none"]
  /\ selected = [w \in threads |-> "none"]
  /\ numUpdates = [w \in threads |-> 0]
  /\ loaded = [w \in threads |-> 0]
  /\ count = [w \in threads |-> 0]
  /\ thrown = [w \in threads |-> "none"]
  /\ holding = {}
  /\ calls = [w \in threads |-> NoCalls]
  /\ tasks = [w \in threads |-> NoCalls]
  /\ sent = [w \in threads |-> 0]
  /\ spurious = {}

\* new SharedArrayBuffer(...) is filled with zeros.
InitCommon(threads) ==
  /\ counterMem = 0
  /\ InitThreads(threads)

\* main.js with its workers; counter.js re-exports any one of the examples.
Init ==
  /\ InitCommon(Workers)
  /\ strategy \in Strategies
  /\ pc = [w \in Workers |-> "idle"]
  /\ budget = [w \in Workers |-> 0]

\* Agents that call lock() and unlock() of one Mutex directly.
InitMutex ==
  /\ InitCommon(Agents)
  /\ strategy = "example3"
  /\ pc = [w \in Agents |-> "client"]
  /\ budget = [w \in Agents |-> MaxCalls]

(***************************************************************************)
(* main.js                                                                 *)
(***************************************************************************)
PostToAll(operation) ==
  /\ ~posted
  /\ posted' = TRUE
  /\ start' = counterMem
  /\ inbox' = [w \in Workers |-> Append(inbox[w],
                  Request(operation, sharedCounterBuffer, sharedMutexBuffer))]
  /\ UNCHANGED <<strategy, shared, outbox, displayed, locals, history>>

triggerConcurrentIncrements == PostToAll("increment")

triggerConcurrentDecrements == PostToAll("decrement")

\* handleMessageFromWorker and showCurrentCount
handleMessageFromWorker(w) ==
  /\ outbox[w] # <<>>
  /\ outbox' = [outbox EXCEPT ![w] = Tail(@)]
  /\ displayed' = IF Head(outbox[w]).done THEN Head(outbox[w]).count ELSE displayed
  /\ UNCHANGED <<strategy, shared, inbox, posted, start, locals, history>>

\* Any requests reaching the workers' onmessage: to each worker one request,
\* or none.
PostMessages ==
  /\ ~posted
  /\ posted' = TRUE
  /\ start' = counterMem
  /\ \E batch \in [Workers -> Requests \cup {NoData}] :
       inbox' = [w \in Workers |->
                   IF batch[w] = NoData THEN inbox[w] ELSE Append(inbox[w], batch[w])]
  /\ UNCHANGED <<strategy, shared, outbox, displayed, locals, history>>

(***************************************************************************)
(* counting-worker.js                                                      *)
(***************************************************************************)

\* The handler up to its first Counter call: the constructor, the switch and
\* the first test of the loop.  mutexArgument is what the constructor call
\* passes as its second argument.
StartHandler(w, mutexArgument) ==
  /\ pc[w] = "idle"
  /\ inbox[w] # <<>>
  /\ LET request == Head(inbox[w])
         made == NewCounter(strategy, request.sharedCounterBuffer, mutexArgument)
         branch == SwitchCase(request.operation)
         it == Iterate(strategy, branch, NumUpdates)
     IN  /\ inbox' = [inbox EXCEPT ![w] = Tail(@)]
         /\ IF HandlerOutcome(made, branch) = "throw"
              THEN /\ thrown' = [thrown EXCEPT ![w] = made]
                   /\ UNCHANGED <<pc, method, selected, numUpdates, tasks, calls>>
            ELSE IF HandlerOutcome(made, branch) = "return"
              THEN /\ thrown' = [thrown EXCEPT ![w] = "none"]
                   /\ UNCHANGED <<pc, method, selected, numUpdates, tasks, calls>>
            ELSE /\ thrown' = [thrown EXCEPT ![w] = "none"]
                 /\ selected' = [selected EXCEPT ![w] = branch]
                 /\ tasks' = [tasks EXCEPT ![w][branch] = @ + 1]
                 /\ pc' = [pc EXCEPT ![w] = it.pc]
                 /\ method' = [method EXCEPT ![w] = it.method]
                 /\ numUpdates' = [numUpdates EXCEPT ![w] = it.numUpdates]
                 /\ calls' = [calls EXCEPT ![w][branch] = @ + it.call]
  /\ UNCHANGED <<strategy, shared, outbox, displayed, posted, start,
                 loaded, count, budget, holding, sent, spurious>>

\* handleMessageFromMain: `new Counter(data.sharedCounterBuffer)`.
handleMessageFromMain(w) == StartHandler(w, Undefined)

\* The same handler around a Counter that is given both of its buffers.
handleMessageBothBuffers(w) == StartHandler(w, Head(inbox[w]).sharedMutexBuffer)

\* A call of increment() / decrement() has returned: back to the loop.
Loop(w) ==
  LET it == Iterate(strategy, selected[w], numUpdates[w])
  IN  /\ method' = [method EXCEPT ![w] = it.method]
      /\ numUpdates' = [numUpdates EXCEPT ![w] = it.numUpdates]
      /\ calls' = [calls EXCEPT ![w][selected[w]] = @ + it.call]
      /\ pc' = [pc EXCEPT ![w] = it.pc]

\* postMessage({ done: true, count }); the handler returns and its locals die.
PostReport(w) ==
  /\ pc[w] = "post"
  /\ outbox' = [outbox EXCEPT ![w] = Append(@, [done |-> TRUE, count |-> count[w]])]
  /\ sent' = [sent EXCEPT ![w] = @ + 1]
  /\ pc' = [pc EXCEPT ![w] = "idle"]
  /\ method' = [method EXCEPT ![w] = "none"]
  /\ selected' = [selected EXCEPT ![w] = "none"]
  /\ numUpdates' = [numUpdates EXCEPT ![w] = 0]
  /\ loaded' = [loaded EXCEPT ![w] = 0]
  /\ count' = [count EXCEPT ![w] = 0]
  /\ UNCHANGED <<strategy, shared, inbox, displayed, posted, start, thrown, budget,
                 holding, calls, tasks, spurious>>

(***************************************************************************)
(* counter-example1.js: no synchronisation                                 *)
(***************************************************************************)
NaiveRead(w) ==
  /\ strategy = "example1"
  /\ pc[w] = "read"
  /\ loaded' = [loaded EXCEPT ![w] = counterMem]
  /\ pc' = [pc EXCEPT ![w] = "write"]
  /\ UNCHANGED <<strategy, shared, mainVars, method, selected, numUpdates, count, thrown,
                 budget, history>>

NaiveWrite(w) ==
  /\ strategy = "example1"
  /\ pc[w] = "write"
  /\ counterMem' = PlainUpdate(loaded[w], Delta(selected[w]))
  /\ Loop(w)
  /\ UNCHANGED <<strategy, lockMem, waiters, mainVars, selected, loaded,
                 count, thrown, budget, holding, tasks, sent, spurious>>

NaiveValue(w) ==
  /\ strategy = "example1"
  /\ pc[w] = "get"
  /\ count' = [count EXCEPT ![w] = counterMem]
  /\ pc' = [pc EXCEPT ![w] = "post"]
  /\ UNCHANGED <<strategy, shared, mainVars, method, selected, numUpdates, loaded, thrown,
                 budget, history>>

(***************************************************************************)
(* counter-example2.js: Atomics                                            *)
(***************************************************************************)
AtomicIncrement(w) ==
  /\ strategy = "example2"
  /\ pc[w] = "add"
  /\ counterMem' = AtomicsAdd(counterMem, 1)
  /\ Loop(w)
  /\ UNCHANGED <<strategy, lockMem, waiters, mainVars, selected, loaded,
                 count, thrown, budget, holding, tasks, sent, spurious>>

AtomicDecrement(w) ==
  /\ strategy = "example2"
  /\ pc[w] = "sub"
  /\ counterMem' = AtomicsSub(counterMem, 1)
  /\ Loop(w)
  /\ UNCHANGED <<strategy, lockMem, waiters, mainVars, selected, loaded,
                 count, thrown, budget, holding, tasks, sent, spurious>>

AtomicValue(w) ==
  /\ strategy = "example2"
  /\ pc[w] = "load"
  /\ count' = [count EXCEPT ![w] = counterMem]
  /\ pc' = [pc EXCEPT ![w] = "post"]
  /\ UNCHANGED <<strategy, shared, mainVars, method, selected, numUpdates, loaded, thrown,
                 budget, history>>

(***************************************************************************)
(* mutex.js                                                                *)
(***************************************************************************)

\* lock(): one #tryGetLock; on failure the caller goes on to #waitIfLocked.
TryGetLock(w) ==
  /\ pc[w] = "lock"
  /\ LET r == tryGetLock(lockMem)
     IN  /\ lockMem' = r.mem
         /\ IF r.ok
              THEN /\ pc' = [pc EXCEPT ![w] = AfterLock(method[w])]
                   /\ holding' = holding \cup {w}
                   /\ spurious' = spurious \ {w}
              ELSE /\ pc' = [pc EXCEPT ![w] = "wait"]
                   /\ UNCHANGED <<holding, spurious>>
  /\ UNCHANGED <<strategy, counterMem, waiters, mainVars, method, selected, numUpdates,
                 loaded, count, thrown, budget, calls, tasks, sent>>

\* #waitIfLocked: Atomics.wait(view, 0, LOCKED) sleeps only if the word is
\* LOCKED; otherwise it returns at once and lock() tries again.
WaitIfLocked(w) ==
  /\ pc[w] = "wait"
  /\ IF AtomicsWait(lockMem, LOCKED) = "sleep"
       THEN /\ waiters' = waiters \cup {w}
            /\ pc' = [pc EXCEPT ![w] = "blocked"]
       ELSE /\ pc' = [pc EXCEPT ![w] = "lock"]
            /\ UNCHANGED waiters
  /\ UNCHANGED <<strategy, counterMem, lockMem, mainVars, method, selected, numUpdates,
                 loaded, count, thrown, budget, history>>

\* Atomics.wait returning to a sleeping worker that no notify has woken.
SpuriousWake(w) ==
  /\ pc[w] = "blocked"
  /\ waiters' = waiters \ {w}
  /\ spurious' = spurious \cup {w}
  /\ pc' = [pc EXCEPT ![w] = AfterWake(method[w])]
  /\ UNCHANGED <<strategy, counterMem, lockMem, mainVars, method, selected, numUpdates,
                 loaded, count, thrown, budget, holding, calls, tasks, sent>>

\* unlock(): #tryUnlock, and the throw when it fails.  Thrown through a
\* Counter method it ends the handler, whose locals die.
TryUnlock(w) ==
  /\ pc[w] = "unlock"
  /\ LET r == tryUnlock(lockMem)
     IN  /\ lockMem' = r.mem
         /\ IF r.ok
              THEN /\ pc' = [pc EXCEPT ![w] = "notify"]
                   /\ UNCHANGED <<thrown, method>>
              ELSE /\ pc' = [pc EXCEPT ![w] = AfterThrow(method[w])]
                   /\ thrown' = [thrown EXCEPT ![w] = "NotHeld"]
                   /\ method' = [method EXCEPT ![w] = "none"]
         /\ IF r.ok \/ method[w] = "unlock"
              THEN UNCHANGED <<selected, numUpdates, loaded, count>>
              ELSE /\ selected' = [selected EXCEPT ![w] = "none"]
                   /\ numUpdates' = [numUpdates EXCEPT ![w] = 0]
                   /\ loaded' = [loaded EXCEPT ![w] = 0]
                   /\ count' = [count EXCEPT ![w] = 0]
  /\ holding' = holding \ {w}
  /\ UNCHANGED <<strategy, counterMem, waiters, mainVars, budget, calls, tasks, sent,
                 spurious>>

\* #notifyAgents: Atomics.notify(view, 0, 1) wakes one sleeping worker, if
\* any, which then tries the lock again; unlock() returns to its caller.
NotifyAgents(w) ==
  /\ pc[w] = "notify"
  /\ LET to == AfterUnlock(strategy, method[w], selected[w], numUpdates[w])
     IN  /\ \E woken \in Notified(waiters, NUM_AGENTS_TO_NOTIFY) :
              /\ waiters' = waiters \ woken
              /\ pc' = [v \in DOMAIN pc |->
                         IF v = w THEN to.pc
                         ELSE IF v \in woken THEN AfterWake(method[v])
                         ELSE pc[v]]
         /\ method' = [method EXCEPT ![w] = to.method]
         /\ numUpdates' = [numUpdates EXCEPT ![w] = to.numUpdates]
         /\ calls' = IF to.call = 0 THEN calls
                     ELSE [calls EXCEPT ![w][selected[w]] = @ + to.call]
  /\ UNCHANGED <<strategy, counterMem, lockMem, mainVars, selected,
                 loaded, count, thrown, budget, holding, tasks, sent, spurious>>

(***************************************************************************)
(* counter-example3.js: plain accesses between lock() and unlock()         *)
(***************************************************************************)
GuardedRead(w) ==
  /\ strategy = "example3"
  /\ pc[w] = "read"
  /\ loaded' = [loaded EXCEPT ![w] = counterMem]
  /\ pc' = [pc EXCEPT ![w] = "write"]
  /\ UNCHANGED <<strategy, shared, mainVars, method, selected, numUpdates, count, thrown,
                 budget, history>>

GuardedWrite(w) ==
  /\ strategy = "example3"
  /\ pc[w] = "write"
  /\ counterMem' = PlainUpdate(loaded[w], Delta(selected[w]))
  /\ pc' = [pc EXCEPT ![w] = "unlock"]
  /\ UNCHANGED <<strategy, lockMem, waiters, mainVars, method, selected, numUpdates, loaded,
                 count, thrown, budget, history>>

GuardedValue(w) ==
  /\ strategy = "example3"
  /\ pc[w] = "get"
  /\ count' = [count EXCEPT ![w] = counterMem]
  /\ pc' = [pc EXCEPT ![w] = "unlock"]
  /\ UNCHANGED <<strategy, shared, mainVars, method, selected, numUpdates, loaded, thrown,
                 budget, history>>

(***************************************************************************)
(* Agents calling the Mutex directly, in any order.                        *)
(***************************************************************************)
CallLock(w) ==
  /\ pc[w] = "client"
  /\ budget[w] > 0
  /\ budget' = [budget EXCEPT ![w] = @ - 1]
  /\ method' = [method EXCEPT ![w] = "lock"]
  /\ thrown' = [thrown EXCEPT ![w] = "none"]
  /\ pc' = [pc EXCEPT ![w] = "lock"]
  /\ UNCHANGED <<strategy, shared, mainVars, selected, numUpdates, loaded, count, history>>

CallUnlock(w) ==
  /\ pc[w] = "client"
  /\ budget[w] > 0
  /\ budget' = [budget EXCEPT ![w] = @ - 1]
  /\ method' = [method EXCEPT ![w] = "unlock"]
  /\ thrown' = [thrown EXCEPT ![w] = "none"]
  /\ pc' = [pc EXCEPT ![w] = "unlock"]
  /\ UNCHANGED <<strategy, shared, mainVars, selected, numUpdates, loaded, count, history>>

\* A caller that uses the Mutex as intended and for ever: lock() when it does
\* not hold the lock, unlock() when it does.
Reacquire(w) ==
  /\ pc[w] = "client"
  /\ w \notin holding
  /\ method' = [method EXCEPT ![w] = "lock"]
  /\ pc' = [pc EXCEPT ![w] = "lock"]
  /\ UNCHANGED <<strategy, shared, mainVars, selected, numUpdates, loaded, count, thrown,
                 budget, history>>

Release(w) ==
  /\ pc[w] = "client"
  /\ w \in holding
  /\ method' = [method EXCEPT ![w] = "unlock"]
  /\ pc' = [pc EXCEPT ![w] = "unlock"]
  /\ UNCHANGED <<strategy, shared, mainVars, selected, numUpdates, loaded, count, thrown,
                 budget, history>>

(***************************************************************************)
(* Specifications.                                                         *)
(***************************************************************************)

\* The program as main.js and counting-worker.js wire it.
Next ==
  \/ triggerConcurrentIncrements
  \/ triggerConcurrentDecrements
  \/ PostMessages
  \/ \E w \in Workers : handleMessageFromWorker(w)
  \/ \E w \in Workers : handleMessageFromMain(w)
  \/ \E w \in Workers : PostReport(w)
  \/ \E w \in Workers : NaiveRead(w)
  \/ \E w \in Workers : NaiveWrite(w)
  \/ \E w \in Workers : NaiveValue(w)
  \/ \E w \in Workers : AtomicIncrement(w)
  \/ \E w \in Workers : AtomicDecrement(w)
  \/ \E w \in Workers : AtomicValue(w)

Spec == Init /\ [][Next]_vars

\* The three Counter examples driven by the worker's loop, each Counter being
\* constructed over the buffers its constructor takes.
NextCounter ==
  \/ triggerConcurrentIncrements
  \/ triggerConcurrentDecrements
  \/ PostMessages
  \/ \E w \in Workers : handleMessageBothBuffers(w)
  \/ \E w \in Workers : PostReport(w)
  \/ \E w \in Workers : NaiveRead(w)
  \/ \E w \in Workers : NaiveWrite(w)
  \/ \E w \in Workers : NaiveValue(w)
  \/ \E w \in Workers : AtomicIncrement(w)
  \/ \E w \in Workers : AtomicDecrement(w)
  \/ \E w \in Workers : AtomicValue(w)
  \/ \E w \in Workers : TryGetLock(w)
  \/ \E w \in Workers : WaitIfLocked(w)
  \/ \E w \in Workers : TryUnlock(w)
  \/ \E w \in Workers : NotifyAgents(w)
  \/ \E w \in Workers : GuardedRead(w)
  \/ \E w \in Workers : GuardedWrite(w)
  \/ \E w \in Workers : GuardedValue(w)

SpecCounter == Init /\ [][NextCounter]_vars

\* counter.js re-exporting counter-example3.js.
InitGuarded ==
  /\ InitCommon(Workers)
  /\ strategy = "example3"
  /\ pc = [w \in Workers |-> "idle"]
  /\ budget = [w \in Workers |-> 0]

\* The guarded Counter under main.js's requests, with waits that may also
\* return without a notify.
NextSpurious ==
  \/ triggerConcurrentIncrements
  \/ triggerConcurrentDecrements
  \/ \E w \in Workers : handleMessageBothBuffers(w)
  \/ \E w \in Workers : PostReport(w)
  \/ \E w \in Workers : TryGetLock(w)
  \/ \E w \in Workers : WaitIfLocked(w)
  \/ \E w \in Workers : SpuriousWake(w)
  \/ \E w \in Workers : TryUnlock(w)
  \/ \E w \in Workers : NotifyAgents(w)
  \/ \E w \in Workers : GuardedRead(w)
  \/ \E w \in Workers : GuardedWrite(w)
  \/ \E w \in Workers : GuardedValue(w)

SpecSpurious == InitGuarded /\ [][NextSpurious]_vars

\* The workers of main.js with the guarded Counter, and every other agent
\* calling unlock() of the same Mutex once, without having locked it.
InitShared ==
  /\ InitCommon(Agents)
  /\ strategy = "example3"
  /\ pc = [w \in Agents |-> IF w \in Workers THEN "idle" ELSE "client"]
  /\ budget = [w \in Agents |-> IF w \in Workers THEN 0 ELSE 1]

NextShared ==
  \/ triggerConcurrentIncrements
  \/ \E w \in Workers : handleMessageBothBuffers(w)
  \/ \E w \in Workers : PostReport(w)
  \/ \E w \in Agents \ Workers : CallUnlock(w)
  \/ \E w \in Agents : TryGetLock(w)
  \/ \E w \in Agents : WaitIfLocked(w)
  \/ \E w \in Agents : TryUnlock(w)
  \/ \E w \in Agents : NotifyAgents(w)
  \/ \E w \in Workers : GuardedRead(w)
  \/ \E w \in Workers : GuardedWrite(w)
  \/ \E w \in Workers : GuardedValue(w)

SpecShared == InitShared /\ [][NextShared]_vars

\* Every step worker w can take by itself: its handler, and the Counter and
\* Mutex methods the handler calls.
WorkerNext(w) ==
  \/ handleMessageBothBuffers(w)
  \/ PostReport(w)
  \/ NaiveRead(w)
  \/ NaiveWrite(w)
  \/ NaiveValue(w)
  \/ AtomicIncrement(w)
  \/ AtomicDecrement(w)
  \/ AtomicValue(w)
  \/ TryGetLock(w)
  \/ WaitIfLocked(w)
  \/ TryUnlock(w)
  \/ NotifyAgents(w)
  \/ GuardedRead(w)
  \/ GuardedWrite(w)
  \/ GuardedValue(w)

\* The three Counter examples under main.js's requests.
NextWorkers ==
  \/ triggerConcurrentIncrements
  \/ triggerConcurrentDecrements
  \/ \E w \in Workers : WorkerNext(w)

SpecWorkers == Init /\ [][NextWorkers]_vars

\* Every step agent w can take by itself on the Mutex.
AgentNext(w) ==
  \/ Reacquire(w)
  \/ Release(w)
  \/ TryGetLock(w)
  \/ WaitIfLocked(w)
  \/ TryUnlock(w)
  \/ NotifyAgents(w)

\* The agent whose lock() call is followed.
Contender == 1

\* The steps of w under a scheduler that runs the Contender's compare-and-swap
\* only while another agent has the lock.
ScheduledNext(w) ==
  \/ Reacquire(w)
  \/ Release(w)
  \/ TryGetLock(w) /\ (w = Contender => lockMem = LOCKED)
  \/ WaitIfLocked(w)
  \/ TryUnlock(w)
  \/ NotifyAgents(w)

NextContended == \E w \in Agents : ScheduledNext(w)

\* Agents that lock and unlock one Mutex for ever, each of them scheduled
\* again and again, in the schedules that are unlucky for the Contender.
SpecContended ==
  /\ InitMutex
  /\ [][NextContended]_vars
  /\ \A w \in Agents : SF_vars(ScheduledNext(w))

\* Every step worker w can take by itself with the guarded Counter.
GuardedNext(w) ==
  \/ handleMessageBothBuffers(w)
  \/ PostReport(w)
  \/ TryGetLock(w)
  \/ WaitIfLocked(w)
  \/ TryUnlock(w)
  \/ NotifyAgents(w)
  \/ GuardedRead(w)
  \/ GuardedWrite(w)
  \/ GuardedValue(w)

\* The requests main.js posts: an increment or a decrement over its two buffers.
MainRequests ==
  {Request(operation, sharedCounterBuffer, sharedMutexBuffer) :
     operation \in {"increment", "decrement"}}

\* Values the counter word may hold when the requests are posted: zero as
\* in a fresh buffer, and what an earlier click on decrement has left of it.
InitialValues == {0, ToUint32(0 - NUM_WORKERS * NumUpdates)}

\* main.js at rest with a counter word that earlier requests may have
\* changed; counter.js re-exports the atomic or the guarded example.
InitMixed ==
  /\ counterMem \in InitialValues
  /\ InitThreads(Workers)
  /\ strategy \in {"example2", "example3"}
  /\ pc = [w \in Workers |-> "idle"]
  /\ budget = [w \in Workers |-> 0]

\* To each worker one of the two requests main.js sends, so that some
\* workers increment while the others decrement.
PostMixed ==
  /\ ~posted
  /\ posted' = TRUE
  /\ start' = counterMem
  /\ \E batch \in [Workers -> MainRequests] :
       inbox' = [w \in Workers |-> Append(inbox[w], batch[w])]
  /\ UNCHANGED <<strategy, shared, outbox, displayed, locals, history>>

NextMixed ==
  \/ PostMixed
  \/ \E w \in Workers :
       \/ handleMessageBothBuffers(w)
       \/ PostReport(w)
       \/ AtomicIncrement(w)
       \/ AtomicDecrement(w)
       \/ AtomicValue(w)
       \/ GuardedNext(w)

\* Incrementing and decrementing workers at the same time, with the atomic
\* or the guarded Counter.
SpecMixed == InitMixed /\ [][NextMixed]_vars

NextFair ==
  \/ triggerConcurrentIncrements
  \/ \E w \in Workers : GuardedNext(w)

\* The guarded Counter with each worker on its own thread: a worker that
\* can take a step is scheduled.
SpecFair ==
  /\ InitGuarded
  /\ [][NextFair]_vars
  /\ \A w \in Workers : WF_vars(GuardedNext(w))

\* The Mutex under callers that call lock() and unlock() in any order.
NextMutex ==
  \/ \E w \in Agents : CallLock(w)
  \/ \E w \in Agents : CallUnlock(w)
  \/ \E w \in Agents : TryGetLock(w)
  \/ \E w \in Agents : WaitIfLocked(w)
  \/ \E w \in Agents : TryUnlock(w)
  \/ \E w \in Agents : NotifyAgents(w)

SpecMutex == InitMutex /\ [][NextMutex]_vars

(***************************************************************************)
(* Properties.                                                             *)
(***************************************************************************)

RECURSIVE SumOver(_, _)
SumOver(f, S) ==
  IF S = {} THEN 0
  ELSE LET w == CHOOSE x \in S : TRUE IN f[w] + SumOver(f, S \ {w})

\* Requests of one operation that entered the loop, over all workers.
Total(operation) == SumOver([w \in Workers |-> tasks[w][operation]], Workers)

\* Every worker has finished what it was sent.
Quiescent == \A w \in Workers : pc[w] = "idle" /\ inbox[w] = <<>>

\* w is between a returned lock() and the compare-and-swap of its unlock().
InCriticalSection(w) ==
  /\ strategy = "example3"
  /\ pc[w] \in {"read", "write", "get", "unlock"}

\* w takes the compare-and-swap step of unlock().
UnlockStep(w) == pc[w] = "unlock" /\ pc'[w] # "unlock"

\* w takes the first step of its handler on the request at the head of its inbox.
HandlerStep(w) == pc[w] = "idle" /\ inbox[w] # <<>> /\ inbox'[w] = Tail(inbox[w])

\* C1: at most one worker is between a returned lock() and its matching
\* unlock(): the critical sections guarded by the Mutex never overlap.
C1_MutualExclusion ==
  /\ Cardinality({w \in Workers : InCriticalSection(w)}) <= 1
  /\ Cardinality(holding) <= 1

\* A worker is inside its critical section while another one sleeps on the lock.
C1_Witness ==
  \E w, v \in Workers : InCriticalSection(w) /\ pc[w] = "write" /\ pc[v] = "blocked"

\* C2: with the guarded counter, once all workers have finished, a counter
\* that started at 0 and was only incremented holds NumUpdates for each
\* incrementing worker (N * K, as a Uint32).
C2_GuardedCorrectness ==
  (strategy = "example3" /\ Quiescent /\ Total("decrement") = 0)
    => counterMem = (Total("increment") * NumUpdates) % Modulus

\* All workers have run a guarded increment request to its end.
C2_Witness ==
  /\ strategy = "example3"
  /\ Quiescent
  /\ Total("increment") = NUM_WORKERS
  /\ Total("decrement") = 0
  /\ counterMem = (NUM_WORKERS * NumUpdates) % Modulus
  /\ \A w \in Workers : sent[w] = 1

\* C3: with the atomic counter, once all workers have finished, a counter
\* that started at 0 and was only incremented holds NumUpdates for each
\* incrementing worker: no increment is lost.
C3_AtomicCorrectness ==
  (strategy = "example2" /\ Quiescent /\ Total("decrement") = 0)
    => counterMem = (Total("increment") * NumUpdates) % Modulus

\* All workers have run an atomic increment request to its end.
C3_Witness ==
  /\ strategy = "example2"
  /\ Quiescent
  /\ Total("increment") = NUM_WORKERS
  /\ Total("decrement") = 0
  /\ counterMem = (NUM_WORKERS * NumUpdates) % Modulus
  /\ \A w \in Workers : sent[w] = 1

\* C4: with the naive counter, once all workers have finished, a counter that
\* started at 0 and was only incremented holds at most NumUpdates for each
\* incrementing worker; the witness is a run that lost an update.
C4_NaiveAtMost ==
  (strategy = "example1" /\ Quiescent /\ Total("decrement") = 0)
    => counterMem <= Total("increment") * NumUpdates

\* Two or more workers have finished their naive increments and the counter
\* holds strictly less than N * K.
C4_Witness ==
  /\ strategy = "example1"
  /\ Quiescent
  /\ Total("increment") >= 2
  /\ Total("decrement") = 0
  /\ counterMem < Total("increment") * NumUpdates

\* C5: unlock() on a lock word that is UNLOCKED throws NotHeld, leaves the
\* word UNLOCKED and notifies nobody.
C5_UnlockContract ==
  [][\A w \in Agents :
       (UnlockStep(w) /\ lockMem = UNLOCKED)
         => /\ thrown'[w] = "NotHeld"
            /\ lockMem' = UNLOCKED
            /\ pc'[w] # "notify"
            /\ waiters' = waiters]_vars

\* An unlock() has failed on an UNLOCKED word: once on a lock that was never
\* locked, or after the lock had been taken and released.
C5_Witness ==
  \E w \in Agents :
    /\ thrown[w] = "NotHeld"
    /\ pc[w] = "client"
    /\ lockMem = UNLOCKED
    /\ budget[w] < MaxCalls - 1

\* C6: unlock() succeeds only for the worker whose compare-and-swap acquired
\* the lock: called by a worker that does not hold the lock it throws NotHeld
\* and leaves the lock word as it was.
C6_OnlyHolderUnlocks ==
  [][\A w \in Agents :
       (UnlockStep(w) /\ w \notin holding)
         => /\ thrown'[w] = "NotHeld"
            /\ lockMem' = lockMem]_vars

\* w takes the postMessage step of its handler.
ReportStep(w) == pc[w] = "post" /\ pc'[w] = "idle"

\* Every request of w that entered the loop has had exactly NumUpdates calls
\* of its own operation.
CallsComplete(w) ==
  /\ calls[w]["increment"] = NumUpdates * tasks[w]["increment"]
  /\ calls[w]["decrement"] = NumUpdates * tasks[w]["decrement"]

\* C7: for each increment or decrement request as main.js posts it, the
\* worker goes Idle -> Running -> Done: it enters the loop, makes exactly
\* NumUpdates calls of the selected operation and none of the other, reads
\* the counter value after its last call and then posts exactly one report
\* {done: true, count} carrying that value; no report precedes the end of the loop.
C7_WorkerProtocol ==
  /\ [][\A w \in Workers :
          /\ (HandlerStep(w) /\ Head(inbox[w]) \in MainRequests)
               => /\ pc'[w] # "idle"
                  /\ tasks'[w][Head(inbox[w]).operation]
                       = tasks[w][Head(inbox[w]).operation] + 1
          /\ (count'[w] # count[w] /\ pc'[w] = "post") => CallsComplete(w)
          /\ ReportStep(w)
               => /\ CallsComplete(w)
                  /\ outbox'[w] = Append(outbox[w], [done |-> TRUE, count |-> count[w]])
                  /\ sent'[w] = tasks[w]["increment"] + tasks[w]["decrement"]]_vars
  /\ [](\A w \in Workers :
          sent[w] = tasks[w]["increment"] + tasks[w]["decrement"]
                      - (IF pc[w] = "idle" THEN 0 ELSE 1))

\* C8: when counter.js selects the guarded counter and the request carries
\* both buffers, as main.js sends it, the worker constructs the Counter
\* without an error and starts its NumUpdates updates.
C8_GuardedThroughWorker ==
  [][\A w \in Workers :
       (strategy = "example3" /\ HandlerStep(w) /\ Head(inbox[w]) \in MainRequests)
         => (thrown'[w] = "none" /\ pc'[w] # "idle")]_vars

Wrapped(x) ==
  IF x < 0 THEN x + Modulus
  ELSE IF x >= Modulus THEN x - Modulus
  ELSE x

\* C10: in every counter strategy the counter word is an unsigned WordBits-bit
\* word: a decrement of a word holding v stores (v - 1) mod 2^WordBits and an
\* increment stores (v + 1) mod 2^WordBits, v being the value the operation
\* read, and neither raises an error.
C10_SilentWrap ==
  /\ [][\A w \in Workers :
          /\ (pc[w] = "write" /\ pc'[w] # "write")
               => /\ counterMem' = Wrapped(loaded[w]
                        + (IF selected[w] = "decrement" THEN 0 - 1 ELSE 1))
                  /\ thrown' = thrown
          /\ (pc[w] = "add" /\ numUpdates'[w] # numUpdates[w])
               => (counterMem' = Wrapped(counterMem + 1) /\ thrown' = thrown)
          /\ (pc[w] = "sub" /\ numUpdates'[w] # numUpdates[w])
               => (counterMem' = Wrapped(counterMem - 1) /\ thrown' = thrown)]_vars
  /\ [](counterMem \in 0..(Modulus - 1))

\* A decrement of a counter holding 0 has stored the largest unsigned value,
\* and no worker has thrown.
C10_Witness ==
  /\ counterMem = Modulus - 1
  /\ Total("increment") = 0
  /\ Total("decrement") > 0
  /\ \A w \in Workers : thrown[w] = "none"

\* C11: a guarded read-modify-write is indivisible for every other guarded
\* operation: while a worker is between the plain read and the plain write of
\* its `+=`, the counter word still holds the value it read and no other
\* worker is at a plain read or write of the counter, so the write stores
\* what the single-step Atomics.add would store.
C11_GuardedIndivisible ==
  \A w \in Workers :
    (strategy = "example3" /\ pc[w] = "write")
      => /\ loaded[w] = counterMem
         /\ \A v \in Workers \ {w} : pc[v] \notin {"read", "write", "get"}

\* A worker is between its plain read and its plain write of a counter that an
\* earlier guarded update already changed, while another worker is trying to
\* take the lock for its value getter.
C11_Witness ==
  \E w, v \in Workers :
    /\ strategy = "example3"
    /\ pc[w] = "write"
    /\ loaded[w] > 0
    /\ pc[v] \in {"lock", "wait"}
    /\ method[v] = "value"

\* C12: every guarded operation releases the lock before it returns: a worker
\* holds the lock only between the lock() and the unlock() of one value,
\* increment or decrement, and the lock word is LOCKED only while some worker
\* is there; with no operation in progress the word is UNLOCKED.
C12_AlwaysReleases ==
  strategy = "example3"
    => /\ \A w \in Workers : w \in holding => InCriticalSection(w)
       /\ lockMem = LOCKED => \E w \in Workers : InCriticalSection(w)
       /\ (\A w \in Workers : pc[w] \in {"idle", "post"}) => lockMem = UNLOCKED

\* Every worker has run a guarded decrement request and its value getter to
\* the end, and the lock is free.
C12_Witness ==
  /\ strategy = "example3"
  /\ Quiescent
  /\ Total("decrement") = NUM_WORKERS
  /\ \A w \in Workers : sent[w] = 1
  /\ lockMem = UNLOCKED
  /\ holding = {}

\* A buffer the constructors must reject: not shared memory, or shorter than
\* one 4-byte element.
Unusable(buffer) ==
  buffer.kind # "SharedArrayBuffer" \/ buffer.byteLength < BYTES_PER_ELEMENT

\* C13: constructing a Counter of any example over a counter buffer that is
\* not shared memory or is shorter than 4 bytes throws an InvalidBuffer error;
\* so does constructing a Mutex over such a buffer, and so the guarded Counter
\* when either of its two buffers is such a buffer.  The handler that made
\* the call gets no counter: it makes no Counter call.
C13_ConstructionValidation ==
  /\ [][\A w \in Workers :
          (HandlerStep(w)
             /\ \/ Unusable(Head(inbox[w]).sharedCounterBuffer)
                \/ strategy = "example3" /\ Unusable(Head(inbox[w]).sharedMutexBuffer))
            => /\ thrown'[w] \in InvalidBuffer
               /\ calls' = calls
               /\ pc'[w] = "idle"]_vars
  /\ [](\A b \in Buffers \cup {Undefined} :
          /\ Unusable(b) => NewMutex(b) \in InvalidBuffer
          /\ \A s \in Strategies :
               Unusable(b) => /\ NewCounter(s, b, sharedMutexBuffer) \in InvalidBuffer
                              /\ NewCounter("example3", sharedCounterBuffer, b) \in InvalidBuffer)

\* Two constructions have failed, one over a buffer that is too short and one
\* over a buffer that is not shared memory.
C13_Witness ==
  \E w, v \in Workers :
    /\ thrown[w] = "ExpectedMinBytes"
    /\ thrown[v] = "ExpectedSharedArrayBuffer"
    /\ pc[w] = "idle" /\ pc[v] = "idle"
    /\ calls[w] = NoCalls /\ calls[v] = NoCalls

\* C17: when the construction of the Counter (or of its Mutex) fails for a
\* request, the handler ends there: it makes no update, leaves the counter
\* word and the lock word as they are, posts no report, and the request is
\* gone from its inbox, so the construction is not tried again.
C17_AbortOnConstructionFailure ==
  /\ [][\A w \in Workers :
          (HandlerStep(w)
             /\ NewCounter(strategy, Head(inbox[w]).sharedCounterBuffer,
                           Head(inbox[w]).sharedMutexBuffer) # "ok")
            => /\ pc'[w] = "idle"
               /\ counterMem' = counterMem
               /\ lockMem' = lockMem
               /\ calls' = calls
               /\ tasks' = tasks
               /\ outbox' = outbox
               /\ sent' = sent
               /\ inbox'[w] = Tail(inbox[w])]_vars
  /\ [](\A w \in Workers : sent[w] = tasks[w]["increment"] + tasks[w]["decrement"]
                                        - (IF pc[w] = "idle" THEN 0 ELSE 1))

\* Every worker was sent a request, one of them failed to construct its
\* Counter, and all the work is over: the failed worker has made no call and
\* sent no report, while another worker has run its request to the end.
C17_Witness ==
  /\ posted
  /\ Quiescent
  /\ \E w, v \in Workers :
       /\ thrown[w] \in InvalidBuffer
       /\ tasks[w] = NoCalls /\ calls[w] = NoCalls
       /\ sent[w] = 0 /\ outbox[w] = <<>>
       /\ sent[v] = 1
       /\ counterMem = NumUpdates

\* w is inside lock(): at its compare-and-swap, about to wait, or asleep.
InLock(w) == pc[w] \in {"lock", "wait", "blocked"}

\* C14: lock() returns only in the step in which the caller's own
\* compare-and-swap changes the lock word from UNLOCKED to LOCKED; a worker
\* that wakes from its wait, by a notify or without one, goes back to the
\* compare-and-swap and holds nothing yet, so the critical sections never
\* overlap even when waits may return without a notify at any time.
C14_RecheckAfterWake ==
  /\ [][\A w \in Workers :
          /\ (InLock(w) /\ pc'[w] \notin {"lock", "wait", "blocked"})
               => (pc[w] = "lock" /\ lockMem = UNLOCKED /\ lockMem' = LOCKED)
          /\ (pc[w] = "blocked" /\ pc'[w] # "blocked")
               => (pc'[w] = "lock" /\ w \notin holding')]_vars
  /\ [](Cardinality({w \in Workers : InCriticalSection(w)}) <= 1)

\* A worker that woke without a notify has failed its compare-and-swap and
\* sleeps again, while another worker is inside its critical section.
C14_Witness ==
  \E w, v \in Workers :
    /\ w \in spurious
    /\ pc[w] = "blocked"
    /\ pc[v] = "write"

\* C15: a caller goes to sleep only in the wait of lock(), and only if the
\* lock word holds LOCKED at that instant; a wait that finds the word UNLOCKED
\* (an unlock() came between the failed compare-and-swap and the wait)
\* returns at once and the caller tries the compare-and-swap again.  The
\* sleepers are exactly the callers blocked in that wait.
C15_BlockOnlyWhileLocked ==
  /\ [][\A w \in Agents :
          /\ (pc[w] # "blocked" /\ pc'[w] = "blocked")
               => (pc[w] = "wait" /\ method[w] = "lock" /\ lockMem = LOCKED)
          /\ (pc[w] = "wait" /\ pc'[w] # "wait" /\ lockMem = UNLOCKED)
               => (pc'[w] = "lock" /\ w \notin waiters')]_vars
  /\ [](waiters = {w \in Agents : pc[w] = "blocked"})

\* A caller whose compare-and-swap failed is about to wait, the lock word has
\* been set to UNLOCKED in between, and the unlocking caller is about to
\* notify while nobody sleeps yet.
C15_Witness ==
  \E w, v \in Agents :
    /\ pc[w] = "wait"
    /\ lockMem = UNLOCKED
    /\ pc[v] = "notify"
    /\ waiters = {}

\* w takes the notify step of unlock().
NotifyStep(w) == pc[w] = "notify" /\ pc'[w] # "notify"

\* C16: a successful unlock() first stores UNLOCKED, waking nobody in that
\* step, and then wakes exactly one of the callers asleep on the lock word,
\* or none when none is asleep; the others stay asleep, and any one of the
\* sleepers may be the one woken.
C16_SingleNotify ==
  /\ [][\A w \in Agents :
          /\ (UnlockStep(w) /\ lockMem = LOCKED)
               => (lockMem' = UNLOCKED /\ pc'[w] = "notify" /\ waiters' = waiters)
          /\ NotifyStep(w)
               => /\ waiters' \subseteq waiters
                  /\ Cardinality(waiters \ waiters') = (IF waiters = {} THEN 0 ELSE 1)
                  /\ \A v \in waiters \ waiters' : pc'[v] = "lock"
                  /\ \A v \in waiters' : pc'[v] = "blocked"
                  /\ lockMem' = lockMem]_vars
  /\ [](\A w \in Agents : pc[w] = "notify" =>
          \A v \in waiters : ENABLED (NotifyAgents(w) /\ waiters' = waiters \ {v}))

\* Two callers slept on the lock word and one notify has woken one of them:
\* the lock is free, one caller is back at its compare-and-swap and the other
\* is still asleep.
C16_Witness ==
  \E u, v, w \in Agents :
    /\ lockMem = UNLOCKED
    /\ pc[u] = "client" /\ thrown[u] = "none" /\ budget[u] = MaxCalls - 2
    /\ pc[v] = "lock" /\ budget[v] = MaxCalls - 1
    /\ pc[w] = "blocked"
    /\ waiters = {w}

\* The Counter methods that call unlock().
CounterMethods == {"increment", "decrement", "value"}

\* C18: an unlock() that finds the lock word not LOCKED throws to its caller:
\* it stores nothing, wakes nobody and does not try again.  Thrown inside a
\* guarded Counter operation it ends the operation and the worker's handler,
\* so that worker posts no report for the request.
C18_NotHeldPropagates ==
  /\ [][\A w \in Agents :
          (UnlockStep(w) /\ lockMem # LOCKED)
            => /\ thrown'[w] = "NotHeld"
               /\ lockMem' = lockMem
               /\ waiters' = waiters
               /\ pc'[w] \notin {"notify", "unlock"}
               /\ \A v \in Agents \ {w} : pc'[v] = pc[v]
               /\ method[w] \in CounterMethods
                    => (pc'[w] = "idle" /\ outbox' = outbox /\ sent' = sent)]_vars
  /\ [](\A w \in Workers :
          thrown[w] = "NotHeld" => (pc[w] = "idle" /\ sent[w] = 0 /\ outbox[w] = <<>>))

\* A worker's guarded update found the lock word UNLOCKED at its unlock(),
\* another agent having released the lock in between: the worker has made
\* its call, its handler is over and it has posted nothing.
C18_Witness ==
  \E w \in Workers :
    /\ thrown[w] = "NotHeld"
    /\ pc[w] = "idle"
    /\ calls[w]["increment"] + calls[w]["decrement"] > 0
    /\ counterMem # 0
    /\ sent[w] = 0
    /\ outbox[w] = <<>>

\* C19: with the naive or the atomic counter no step of a worker waits for
\* another worker: a worker that has a request and keeps taking its own
\* steps makes all its updates and posts its report, whatever the other
\* workers do and whether or not they ever take a step.
C19_NeverBlocks ==
  \A w \in Workers :
    WF_vars(WorkerNext(w))
      => ((strategy \in {"example1", "example2"} /\ inbox[w] # <<>>)
            ~> (sent[w] = 1 /\ pc[w] = "idle" /\ CallsComplete(w)))

\* One worker has finished its atomic updates and posted its report while
\* another worker has not yet taken a single step on its request.
C19_Witness ==
  \E w, v \in Workers :
    /\ strategy = "example2"
    /\ sent[w] = 1 /\ pc[w] = "idle"
    /\ calls[w]["increment"] = NumUpdates
    /\ inbox[v] # <<>> /\ pc[v] = "idle"

\* C20: the Mutex is not starvation-free.  In the schedules of SpecContended
\* every agent is scheduled fairly with respect to all the steps the Mutex
\* lets it take, the other agents keep re-acquiring the lock, and yet the
\* Contender's lock() never returns: each of its compare-and-swaps fails, so
\* that it is again and again at or in its wait, while the lock is free again
\* and again and another agent holds it again and again.
C20_NoStarvationFreedom ==
  /\ \A w \in Agents : WF_vars(AgentNext(w)) /\ SF_vars(AgentNext(w))
  /\ <>(pc[Contender] = "lock")
  /\ [][pc[Contender] # "client" => pc'[Contender] \in {"lock", "wait", "blocked"}]_vars
  /\ []<>(pc[Contender] \in {"wait", "blocked"})
  /\ [](Contender \notin holding)
  /\ []<>(lockMem = UNLOCKED)
  /\ []<>(\E w \in Agents \ {Contender} : w \in holding)

\* The Contender sleeps in its lock() while an agent that was itself asleep in
\* lock() before holds the lock and a third agent is at its compare-and-swap.
C20_Witness ==
  \E v, w \in Agents \ {Contender} :
    /\ pc[Contender] = "blocked"
    /\ v \in holding /\ pc[v] = "client"
    /\ pc[w] = "lock"
    /\ waiters = {Contender}

\* C21: the guarded counter neither deadlocks nor loses a wake-up.  Whenever
\* a worker sleeps in its wait while the lock word is UNLOCKED, some other
\* worker is about to notify or is awake inside lock() and so will unlock
\* and notify later; a sleeping worker is never left with only finished or
\* sleeping workers; and with every worker that can take a step scheduled,
\* every worker that was sent a request makes its NumUpdates calls and posts
\* its report.
C21_NoLostWakeup ==
  /\ [](\A w \in Workers :
          (pc[w] = "blocked" /\ lockMem = UNLOCKED)
            => \E v \in Workers \ {w} : pc[v] \in {"notify", "lock", "wait"})
  /\ [](\A w \in Workers :
          pc[w] = "blocked"
            => \E v \in Workers \ {w} : pc[v] \notin {"idle", "post", "blocked"})
  /\ \A w \in Workers :
       (inbox[w] # <<>>) ~> (pc[w] = "idle" /\ sent[w] = 1 /\ CallsComplete(w))

\* A worker sleeps in its wait although the lock word is UNLOCKED: the other
\* worker, which made all its increments first and then held the lock for its
\* read of the value, has released the lock word and its notify is still to
\* come.
C21_Witness ==
  \E v, w \in Workers :
    /\ strategy = "example3"
    /\ lockMem = UNLOCKED
    /\ pc[w] = "blocked"
    /\ waiters = {w}
    /\ pc[v] = "notify"
    /\ method[v] = "value"
    /\ counterMem = NumUpdates

\* C22: with the atomic or the guarded strategy and every worker incrementing
\* NumUpdates times from 0, once the main thread has received the report of
\* every worker the count it displayed last is the final counter value
\* NUM_WORKERS * NumUpdates.
C22_DisplayedIsFinal ==
  ( /\ strategy \in {"example2", "example3"}
    /\ Total("increment") = NUM_WORKERS
    /\ Total("decrement") = 0
    /\ \A w \in Workers : pc[w] = "idle" /\ sent[w] = 1 /\ outbox[w] = <<>> )
  => displayed = (NUM_WORKERS * NumUpdates) % Modulus

C24_LockSlot ==
  /\ lockMem \in {UNLOCKED, LOCKED}
  /\ lockMem = LOCKED <=> Cardinality(holding) = 1
  /\ lockMem = UNLOCKED <=> holding = {}
  /\ \A w \in Workers :
       (strategy = "example3" /\ pc[w] \in {"read", "write", "get"})
         => (lockMem = LOCKED /\ holding = {w})

\* A worker holds the lock at the plain read of its value getter, after both
\* workers have made their guarded updates, while the other worker is at the
\* compare-and-swap of its lock().
C24_Witness ==
  \E w, v \in Workers :
    /\ strategy = "example3"
    /\ pc[w] = "get"
    /\ holding = {w}
    /\ lockMem = LOCKED
    /\ pc[v] = "lock"
    /\ method[v] = "value"

\* C25: with the atomic or the guarded strategy, when some workers make
\* NumUpdates increments each and the others NumUpdates decrements each, all
\* at the same time, on a counter word holding `start`, the word ends at
\* (start + I * NumUpdates - D * NumUpdates) mod 2^WordBits in every
\* interleaving, I and D being the numbers of incrementing and of
\* decrementing workers; as many of the one as of the other leave it at `start`.
C25_NetEffect ==
  (strategy \in {"example2", "example3"} /\ posted /\ Quiescent)
    => /\ counterMem = (start + Total("increment") * NumUpdates
                              - Total("decrement") * NumUpdates) % Modulus
       /\ Total("increment") = Total("decrement") => counterMem = start
       /\ Total("increment") + Total("decrement") = NUM_WORKERS

\* A guarded run in which some workers incremented and others decremented a
\* counter word that an earlier click on decrement had wrapped has ended,
\* every worker having reported.
C25_Witness ==
  /\ strategy = "example3"
  /\ posted
  /\ Quiescent
  /\ start > 0
  /\ Total("increment") >= 1
  /\ Total("decrement") >= 1
  /\ \A w \in Workers : sent[w] = 1 /\ CallsComplete(w)

====
